---------------------------- MODULE Spec2Model ----------------------------
(***************************************************************************)
(* Shortest-path search engine of the mapping-algorithm repository:        *)
(* MinHeap, dijkstra, astar, bidirectionalDijkstra, reconstructPath.       *)
(*                                                                         *)
(* The repository holds two copies of the routing module:                  *)
(*   "js"  - src/js/routing.js                                             *)
(*   "web" - src/unnamed/part_000, lines 1-432                             *)
(* They differ in where the stale-entry test stands in the loops.  The     *)
(* variable impl selects the copy a behaviour runs.                        *)
(*                                                                         *)
(* Edge weights and costs are non-negative integers (minutes).  Under Spec  *)
(* one behaviour is one call of runAlgorithm with one algorithm on one     *)
(* input; under SpecRepeat the caller runs further algorithms on the same  *)
(* input, as computeRoutes does; under SpecHeap a MinHeap is pushed and    *)
(* popped on its own.  The memory estimate (maxPqSize, estimatedMemoryKB)  *)
(* and the timing fields of the report are not modelled: nothing reads     *)
(* them.                                                                   *)
(***************************************************************************)
EXTENDS Integers, Sequences, FiniteSets, TLC

(***************************************************************************)
(* Bounds of the model.                                                    *)
(***************************************************************************)
\* edge weights are 0..MaxWeight
MaxWeight == 1
\* coordinates are 0..MaxCoord
MaxCoord == 2

(***************************************************************************)
(* JavaScript values.                                                      *)
(***************************************************************************)
\* null
NULL == "null"
\* undefined (Map.get of a missing key)
UNDEFINED == "undefined"
\* a variable whose declaration the call has not reached yet
UNSET == <<>>
\* Infinity: larger than every cost a bounded run can produce; Add keeps it
\* absorbing as IEEE addition does.
Infinity == 1000000

Add(a, b) == IF a = Infinity \/ b = Infinity THEN Infinity ELSE a + b

(***************************************************************************)
(* Inputs.                                                                 *)
(***************************************************************************)
Nodes == {"A", "B", "C", "D", "E"}
\* Insertion order of the keys of the graph Map, and the order of the
\* entries of each adjacency list.
NodeOrder == <<"A", "B", "C", "D", "E">>
Weights == 0..MaxWeight
\* the weights given to the edges E: any weight on the edges that leave A,
\* zero or the largest weight on the others
WeightFns(E) ==
    {wf \in [E -> Weights] :
        \A p \in E : p[1] # "A" => wf[p] \in {0, MaxWeight}}
\* the directed edges a graph of the model may have: every edge among A,
\* B, C, D that does not enter the start A or leave the target D.  The
\* mirrored graphs below have those too, and the graph of the ties has E.
Pairs ==
    {p \in (Nodes \ {"E"}) \X (Nodes \ {"E"}) :
        p[1] # p[2] /\ p[2] # "A" /\ p[1] # "D"}

RECURSIVE SeqFilterMap(_, _, _)
\* the entries [v, wf[u,v]] of node u's adjacency list, in NodeOrder
SeqFilterMap(u, wf, i) ==
    IF i > Len(NodeOrder) THEN <<>>
    ELSE LET v == NodeOrder[i] IN
         IF <<u, v>> \in DOMAIN wf
         THEN <<(<<v, wf[<<u, v>>]>>)>> \o SeqFilterMap(u, wf, i + 1)
         ELSE SeqFilterMap(u, wf, i + 1)

\* buildGraph: the adjacency lists of a list of weighted edges.  A node
\* without outgoing edge has no key in the Map; graph.get(u) || [] reads it
\* as the empty list, which is what the model stores for it.
buildGraph(wf) == [u \in Nodes |-> SeqFilterMap(u, wf, 1)]

EdgeSets == SUBSET Pairs

(***************************************************************************)
(* MinHeap.  heap is the array this.heap; the code's index i is heap[i+1]. *)
(***************************************************************************)
Swap(heap, i, j) ==
    [heap EXCEPT ![i + 1] = heap[j + 1], ![j + 1] = heap[i + 1]]

\* a float that swaps with the parent once and stops
bubbleUpOnce(heap, index) ==
    IF index > 0
    THEN LET parentIndex == (index - 1) \div 2 IN
         IF heap[index + 1][1] >= heap[parentIndex + 1][1]
         THEN heap
         ELSE Swap(heap, index, parentIndex)
    ELSE heap

RECURSIVE bubbleUp(_, _)
bubbleUp(heap, index) ==
    IF index > 0
    THEN LET parentIndex == (index - 1) \div 2 IN
         IF heap[index + 1][1] >= heap[parentIndex + 1][1]
         THEN heap
         ELSE bubbleUp(Swap(heap, index, parentIndex), parentIndex)
    ELSE heap

RECURSIVE bubbleDownLeftOnly(_, _)
\* a sink that looks at the left child alone
bubbleDownLeftOnly(heap, index) ==
    LET leftChild == 2 * index + 1
        smallest == IF leftChild < Len(heap)
                       /\ heap[leftChild + 1][1] < heap[index + 1][1]
                    THEN leftChild ELSE index
    IN  IF smallest = index
        THEN heap
        ELSE bubbleDownLeftOnly(Swap(heap, index, smallest), smallest)

RECURSIVE bubbleDown(_, _)
bubbleDown(heap, index) ==
    LET leftChild == 2 * index + 1
        rightChild == 2 * index + 2
        s1 == IF leftChild < Len(heap)
                 /\ heap[leftChild + 1][1] < heap[index + 1][1]
              THEN leftChild ELSE index
        smallest == IF rightChild < Len(heap)
                       /\ heap[rightChild + 1][1] < heap[s1 + 1][1]
                    THEN rightChild ELSE s1
    IN  IF smallest = index
        THEN heap
        ELSE bubbleDown(Swap(heap, index, smallest), smallest)

push(heap, item) == bubbleUp(Append(heap, item), Len(heap))

\* pop returns [min, heap]: the entry returned and the array left
pop(heap) ==
    IF Len(heap) = 0 THEN [min |-> NULL, heap |-> heap]
    ELSE LET min == heap[1]
             last == heap[Len(heap)]
             rest == SubSeq(heap, 1, Len(heap) - 1)
         IN  IF Len(rest) > 0
             THEN [min |-> min, heap |-> bubbleDown([rest EXCEPT ![1] = last], 0)]
             ELSE [min |-> min, heap |-> rest]

size(heap) == Len(heap)

(***************************************************************************)
(* Maps.  A Map is a function on the set of its keys.                      *)
(***************************************************************************)
EmptyMap == <<>>
has(map, k) == k \in DOMAIN map
get(map, k) == IF k \in DOMAIN map THEN map[k] ELSE UNDEFINED
set(map, k, v) == [x \in DOMAIN map \cup {k} |-> IF x = k THEN v ELSE map[x]]
\* map.get(k) ?? Infinity
getOrInf(map, k) == IF k \in DOMAIN map THEN map[k] ELSE Infinity

(***************************************************************************)
(* reconstructPath.  The walk ends at null.  A key without entry reads     *)
(* undefined, which is not null, and parent.get(undefined) is undefined    *)
(* again: the loop never ends.  DIVERGES stands for that outcome.          *)
(***************************************************************************)
DIVERGES == <<"diverges">>

RECURSIVE Reverse(_)
Reverse(s) == IF s = <<>> THEN <<>> ELSE Reverse(Tail(s)) \o <<Head(s)>>

RECURSIVE walkBack(_, _, _)
walkBack(parent, cur, path) ==
    IF cur = NULL THEN path
    ELSE IF cur = UNDEFINED \/ Len(path) > Cardinality(Nodes) THEN DIVERGES
    ELSE walkBack(parent, get(parent, cur), Append(path, cur))

reconstructPath(parent, t) ==
    LET path == walkBack(parent, t, <<>>) IN
    IF path = DIVERGES THEN DIVERGES ELSE Reverse(path)

(***************************************************************************)
(* State.                                                                  *)
(***************************************************************************)
VARIABLES
    impl,        \* which copy of the routing module runs
    algo,        \* the algorithm called
    graph, start, target, nodeCoords,   \* its arguments
    pc,          \* position in the function
    loc,         \* the function's local variables
    result,      \* the value returned
    report,      \* the report runAlgorithm returns
    hist,        \* the caller's record: the first report of each algorithm
    heap,        \* a MinHeap used on its own: its array
    heapBefore,  \* that array before the last call of push or pop
    popped       \* what the last call returned

vars == <<impl, algo, graph, start, target, nodeCoords, pc, loc, result,
          report, hist, heap, heapBefore, popped>>

\* the state of the caller of the searches
callerVars == <<report, hist>>
\* the state of the MinHeap used on its own
heapVars == <<heap, heapBefore, popped>>

Impls == {"js", "web"}

(***************************************************************************)
(* dijkstra                                                                *)
(***************************************************************************)
RECURSIVE dijkstraRelaxFirstOnly(_, _, _, _, _)
\* a relaxation that records a cost for a node only the first time it is
\* reached
dijkstraRelaxFirstOnly(l, neighbors, i, curT, u) ==
    IF i > Len(neighbors) THEN l
    ELSE LET v == neighbors[i][1]
             w == neighbors[i][2]
             nt == curT + w
         IN  IF ~has(l.dist, v)
             THEN dijkstraRelaxFirstOnly(
                      [l EXCEPT !.dist = set(l.dist, v, nt),
                                !.parent = set(l.parent, v, u),
                                !.pq = push(l.pq, <<nt, v>>)],
                      neighbors, i + 1, curT, u)
             ELSE dijkstraRelaxFirstOnly(l, neighbors, i + 1, curT, u)

RECURSIVE dijkstraRelaxKeepParent(_, _, _, _, _)
\* a relaxation that improves the cost of a node but keeps the parent it
\* had
dijkstraRelaxKeepParent(l, neighbors, i, curT, u) ==
    IF i > Len(neighbors) THEN l
    ELSE LET v == neighbors[i][1]
             w == neighbors[i][2]
             nt == curT + w
         IN  IF nt < getOrInf(l.dist, v)
             THEN dijkstraRelaxKeepParent(
                      [l EXCEPT !.dist = set(l.dist, v, nt),
                                !.parent = IF has(l.parent, v) THEN l.parent
                                           ELSE set(l.parent, v, u),
                                !.pq = push(l.pq, <<nt, v>>)],
                      neighbors, i + 1, curT, u)
             ELSE dijkstraRelaxKeepParent(l, neighbors, i + 1, curT, u)

RECURSIVE dijkstraRelaxNonStrict(_, _, _, _, _)
\* a relaxation that also takes a cost equal to the best known
dijkstraRelaxNonStrict(l, neighbors, i, curT, u) ==
    IF i > Len(neighbors) THEN l
    ELSE LET v == neighbors[i][1]
             w == neighbors[i][2]
             nt == curT + w
         IN  IF nt <= getOrInf(l.dist, v)
             THEN dijkstraRelaxNonStrict(
                      [l EXCEPT !.dist = set(l.dist, v, nt),
                                !.parent = set(l.parent, v, u),
                                !.pq = push(l.pq, <<nt, v>>)],
                      neighbors, i + 1, curT, u)
             ELSE dijkstraRelaxNonStrict(l, neighbors, i + 1, curT, u)

RECURSIVE dijkstraRelax(_, _, _, _, _)
\* the for loop over neighbors, from entry i on
dijkstraRelax(l, neighbors, i, curT, u) ==
    IF i > Len(neighbors) THEN l
    ELSE LET v == neighbors[i][1]
             w == neighbors[i][2]
             nt == curT + w
         IN  IF nt < getOrInf(l.dist, v)
             THEN dijkstraRelax([l EXCEPT !.dist = set(l.dist, v, nt),
                                          !.parent = set(l.parent, v, u),
                                          !.pq = push(l.pq, <<nt, v>>)],
                                neighbors, i + 1, curT, u)
             ELSE dijkstraRelax(l, neighbors, i + 1, curT, u)

\* an initialisation whose counter goes on from the last run of dijkstra
dijkstraInitKeepCount(s) ==
    [dist |-> set(EmptyMap, s, 0),
     parent |-> set(EmptyMap, s, NULL),
     pq |-> push(<<>>, <<0, s>>),
     nodesExplored |-> IF has(hist, "dijkstra")
                       THEN hist["dijkstra"].nodesExplored ELSE 0,
     visitedOrder |-> <<>>,
     brk |-> FALSE]

dijkstraInit(s) ==
    [dist |-> set(EmptyMap, s, 0),
     parent |-> set(EmptyMap, s, NULL),
     pq |-> push(<<>>, <<0, s>>),
     nodesExplored |-> 0,
     visitedOrder |-> <<>>,
     brk |-> FALSE]

Visit(l, u) ==
    [l EXCEPT !.nodesExplored = l.nodesExplored + 1,
              !.visitedOrder = Append(l.visitedOrder,
                                      [id |-> u, parent |-> get(l.parent, u)])]

\* an iteration whose stale test is >= instead of >
dijkstraIterWebStrict(g, t, l) ==
    LET p == pop(l.pq)
        curT == p.min[1]
        u == p.min[2]
        l1 == [l EXCEPT !.pq = p.heap]
    IN  IF curT >= getOrInf(l1.dist, u) THEN l1
        ELSE LET l2 == Visit(l1, u) IN
             IF u = t THEN [l2 EXCEPT !.brk = TRUE]
             ELSE dijkstraRelax(l2, g[u], 1, curT, u)

\* an iteration that leaves a stale entry at the root of the frontier
dijkstraIterWebNoPop(g, t, l) ==
    LET p == pop(l.pq)
        curT == p.min[1]
        u == p.min[2]
        l1 == [l EXCEPT !.pq = p.heap]
    IN  IF curT > getOrInf(l1.dist, u) THEN l
        ELSE LET l2 == Visit(l1, u) IN
             IF u = t THEN [l2 EXCEPT !.brk = TRUE]
             ELSE dijkstraRelax(l2, g[u], 1, curT, u)

\* one iteration of the while loop, "web" copy
dijkstraIterWeb(g, t, l) ==
    LET p == pop(l.pq)
        curT == p.min[1]
        u == p.min[2]
        l1 == [l EXCEPT !.pq = p.heap]
    IN  IF curT > getOrInf(l1.dist, u) THEN l1
        ELSE LET l2 == Visit(l1, u) IN
             IF u = t THEN [l2 EXCEPT !.brk = TRUE]
             ELSE dijkstraRelax(l2, g[u], 1, curT, u)

\* one iteration of the while loop, "js" copy
dijkstraIterJs(g, t, l) ==
    LET p == pop(l.pq)
        curT == p.min[1]
        u == p.min[2]
        l2 == Visit([l EXCEPT !.pq = p.heap], u)
    IN  IF u = t THEN [l2 EXCEPT !.brk = TRUE]
        ELSE IF curT > getOrInf(l2.dist, u) THEN l2
        ELSE dijkstraRelax(l2, g[u], 1, curT, u)

dijkstraIter(i, g, t, l) ==
    IF i = "js" THEN dijkstraIterJs(g, t, l) ELSE dijkstraIterWeb(g, t, l)

\* a result that reports whatever the walk back from the target gives
dijkstraResultNoTest(t, l) ==
    [path |-> reconstructPath(l.parent, t), travelTime |-> get(l.dist, t),
     nodesExplored |-> l.nodesExplored, visitedOrder |-> l.visitedOrder]

dijkstraResult(t, l) ==
    IF ~has(l.dist, t)
    THEN [path |-> NULL, travelTime |-> NULL,
          nodesExplored |-> l.nodesExplored, visitedOrder |-> l.visitedOrder]
    ELSE [path |-> reconstructPath(l.parent, t), travelTime |-> l.dist[t],
          nodesExplored |-> l.nodesExplored, visitedOrder |-> l.visitedOrder]

RECURSIVE dijkstraWhile(_, _, _, _)
\* the while loop, run to its end
dijkstraWhile(i, g, t, l) ==
    IF l.brk \/ size(l.pq) = 0 THEN l
    ELSE dijkstraWhile(i, g, t, dijkstraIter(i, g, t, l))

\* the value a call of dijkstra returns
dijkstra(i, g, s, t) == dijkstraResult(t, dijkstraWhile(i, g, t, dijkstraInit(s)))

dijkstraBegin ==
    /\ pc = "call" /\ algo = "dijkstra"
    /\ loc' = dijkstraInit(start)
    /\ pc' = "loop"
    /\ UNCHANGED <<callerVars, heapVars, impl, algo, graph, start, target,
                 nodeCoords, result>>

dijkstraLoop ==
    /\ pc = "loop" /\ algo = "dijkstra"
    /\ ~loc.brk /\ size(loc.pq) > 0
    /\ loc' = dijkstraIter(impl, graph, target, loc)
    /\ UNCHANGED <<callerVars, heapVars, impl, algo, graph, start, target,
                 nodeCoords, pc, result>>

dijkstraReturn ==
    /\ pc = "loop" /\ algo = "dijkstra"
    /\ (loc.brk \/ size(loc.pq) = 0)
    /\ result' = dijkstraResult(target, loc)
    /\ pc' = "done"
    /\ UNCHANGED <<callerVars, heapVars, impl, algo, graph, start, target,
                 nodeCoords, loc>>

(***************************************************************************)
(* astar                                                                   *)
(***************************************************************************)
\* haversine of geo.js: the great-circle distance in km.  A coordinate is a
\* position in km along one meridian, so the distance of two of them is
\* the absolute difference.
haversine(p, q) == IF p >= q THEN p - q ELSE q - p

\* the speed, in km/h, at which the heuristic turns km into minutes
HeuristicSpeed == 60

heuristic(coords, t, node) ==
    IF ~has(coords, node) THEN 0
    ELSE LET distKm == haversine(coords[node], coords[t])
         IN  distKm \div (HeuristicSpeed \div 60)

RECURSIVE astarRelaxFirstOnly(_, _, _, _, _, _)
\* a relaxation that never improves the gScore a node already has
astarRelaxFirstOnly(l, neighbors, i, u, coords, t) ==
    IF i > Len(neighbors) THEN l
    ELSE LET v == neighbors[i][1]
             w == neighbors[i][2]
             tentativeG == l.gScore[u] + w
         IN  IF ~has(l.gScore, v)
             THEN LET f == tentativeG + heuristic(coords, t, v) IN
                  astarRelaxFirstOnly(
                      [l EXCEPT !.gScore = set(l.gScore, v, tentativeG),
                                !.fScore = set(l.fScore, v, f),
                                !.parent = set(l.parent, v, u),
                                !.pq = push(l.pq, <<f, tentativeG, v>>)],
                      neighbors, i + 1, u, coords, t)
             ELSE astarRelaxFirstOnly(l, neighbors, i + 1, u, coords, t)

RECURSIVE astarRelaxKeepParent(_, _, _, _, _, _)
\* a relaxation that improves gScore of a node but keeps the parent it had
astarRelaxKeepParent(l, neighbors, i, u, coords, t) ==
    IF i > Len(neighbors) THEN l
    ELSE LET v == neighbors[i][1]
             w == neighbors[i][2]
             tentativeG == l.gScore[u] + w
         IN  IF tentativeG < getOrInf(l.gScore, v)
             THEN LET f == tentativeG + heuristic(coords, t, v) IN
                  astarRelaxKeepParent(
                      [l EXCEPT !.gScore = set(l.gScore, v, tentativeG),
                                !.fScore = set(l.fScore, v, f),
                                !.parent = IF has(l.parent, v) THEN l.parent
                                           ELSE set(l.parent, v, u),
                                !.pq = push(l.pq, <<f, tentativeG, v>>)],
                      neighbors, i + 1, u, coords, t)
             ELSE astarRelaxKeepParent(l, neighbors, i + 1, u, coords, t)

RECURSIVE astarRelax(_, _, _, _, _, _)
\* the for loop over neighbors, from entry i on
astarRelax(l, neighbors, i, u, coords, t) ==
    IF i > Len(neighbors) THEN l
    ELSE LET v == neighbors[i][1]
             w == neighbors[i][2]
             tentativeG == l.gScore[u] + w
         IN  IF tentativeG < getOrInf(l.gScore, v)
             THEN LET f == tentativeG + heuristic(coords, t, v) IN
                  astarRelax([l EXCEPT !.gScore = set(l.gScore, v, tentativeG),
                                       !.fScore = set(l.fScore, v, f),
                                       !.parent = set(l.parent, v, u),
                                       !.pq = push(l.pq, <<f, tentativeG, v>>)],
                             neighbors, i + 1, u, coords, t)
             ELSE astarRelax(l, neighbors, i + 1, u, coords, t)

astarInit(s, t, coords) ==
    [gScore |-> set(EmptyMap, s, 0),
     fScore |-> set(EmptyMap, s, heuristic(coords, t, s)),
     parent |-> set(EmptyMap, s, NULL),
     pq |-> push(<<>>, <<heuristic(coords, t, s), 0, s>>),
     nodesExplored |-> 0,
     visitedOrder |-> <<>>,
     brk |-> FALSE]

\* one iteration of the while loop, "web" copy
astarIterWeb(g, t, coords, l) ==
    LET p == pop(l.pq)
        curG == p.min[2]
        u == p.min[3]
        l1 == [l EXCEPT !.pq = p.heap]
    IN  IF curG > getOrInf(l1.gScore, u) THEN l1
        ELSE LET l2 == Visit(l1, u) IN
             IF u = t THEN [l2 EXCEPT !.brk = TRUE]
             ELSE astarRelax(l2, g[u], 1, u, coords, t)

\* one iteration of the while loop, "js" copy
astarIterJs(g, t, coords, l) ==
    LET p == pop(l.pq)
        curG == p.min[2]
        u == p.min[3]
        l2 == Visit([l EXCEPT !.pq = p.heap], u)
    IN  IF u = t THEN [l2 EXCEPT !.brk = TRUE]
        ELSE IF curG > getOrInf(l2.gScore, u) THEN l2
        ELSE astarRelax(l2, g[u], 1, u, coords, t)

astarIter(i, g, t, coords, l) ==
    IF i = "js" THEN astarIterJs(g, t, coords, l)
    ELSE astarIterWeb(g, t, coords, l)

\* a guard that looks for the target only
coordsMissingTarget(coords, s, t) == ~has(coords, t)

\* the guard of the first statement
coordsMissing(coords, s, t) == ~has(coords, t) \/ ~has(coords, s)

\* the result of the first statement, when a coordinate is missing
astarNoCoords ==
    [path |-> NULL, travelTime |-> NULL, nodesExplored |-> 0,
     visitedOrder |-> <<>>]

astarResult(t, l) ==
    IF ~has(l.gScore, t)
    THEN [path |-> NULL, travelTime |-> NULL,
          nodesExplored |-> l.nodesExplored, visitedOrder |-> l.visitedOrder]
    ELSE [path |-> reconstructPath(l.parent, t), travelTime |-> l.gScore[t],
          nodesExplored |-> l.nodesExplored, visitedOrder |-> l.visitedOrder]

\* astar called with a lookup that lacks start or target
astarMissing ==
    /\ pc = "call" /\ algo = "astar"
    /\ coordsMissing(nodeCoords, start, target)
    /\ result' = astarNoCoords
    /\ pc' = "done"
    /\ UNCHANGED <<callerVars, heapVars, impl, algo, graph, start, target,
                 nodeCoords, loc>>

astarBegin ==
    /\ pc = "call" /\ algo = "astar"
    /\ ~coordsMissing(nodeCoords, start, target)
    /\ loc' = astarInit(start, target, nodeCoords)
    /\ pc' = "loop"
    /\ UNCHANGED <<callerVars, heapVars, impl, algo, graph, start, target,
                 nodeCoords, result>>

astarLoop ==
    /\ pc = "loop" /\ algo = "astar"
    /\ ~loc.brk /\ size(loc.pq) > 0
    /\ loc' = astarIter(impl, graph, target, nodeCoords, loc)
    /\ UNCHANGED <<callerVars, heapVars, impl, algo, graph, start, target,
                 nodeCoords, pc, result>>

astarReturn ==
    /\ pc = "loop" /\ algo = "astar"
    /\ (loc.brk \/ size(loc.pq) = 0)
    /\ result' = astarResult(target, loc)
    /\ pc' = "done"
    /\ UNCHANGED <<callerVars, heapVars, impl, algo, graph, start, target,
                 nodeCoords, loc>>

(***************************************************************************)
(* bidirectionalDijkstra                                                   *)
(***************************************************************************)
RECURSIVE reverseEdgesIntoGraph(_, _, _)
\* loops that push the reversed edge onto the list of the input graph as
\* well
reverseEdgesIntoGraph(st, i, j) ==
    IF i > Len(NodeOrder) THEN st
    ELSE LET u == NodeOrder[i] IN
         IF j > Len(st.graph[u]) THEN reverseEdgesIntoGraph(st, i + 1, 1)
         ELSE LET v == st.graph[u][j][1]
                  w == st.graph[u][j][2]
              IN  reverseEdgesIntoGraph(
                      [st EXCEPT !.reverseGraph[v] = Append(@, <<u, w>>),
                                 !.graph[v] = Append(@, <<u, w>>)],
                      i, j + 1)

RECURSIVE reverseEdgesNoRepeat(_, _, _)
\* loops that push an entry only to a list that does not hold it yet
reverseEdgesNoRepeat(st, i, j) ==
    IF i > Len(NodeOrder) THEN st
    ELSE LET u == NodeOrder[i] IN
         IF j > Len(st.graph[u]) THEN reverseEdgesNoRepeat(st, i + 1, 1)
         ELSE LET v == st.graph[u][j][1]
                  w == st.graph[u][j][2]
                  listed == \E k \in DOMAIN st.reverseGraph[v] :
                                st.reverseGraph[v][k] = <<u, w>>
              IN  reverseEdgesNoRepeat(
                      IF listed THEN st
                      ELSE [st EXCEPT !.reverseGraph[v] = Append(@, <<u, w>>)],
                      i, j + 1)

RECURSIVE reverseEdges(_, _, _)
\* the two nested for loops that build reverseGraph: node NodeOrder[i],
\* entry j of its list.  st holds the two maps the loops can reach: the
\* input graph, which they read, and reverseGraph, to whose lists they push
reverseEdges(st, i, j) ==
    IF i > Len(NodeOrder) THEN st
    ELSE LET u == NodeOrder[i] IN
         IF j > Len(st.graph[u]) THEN reverseEdges(st, i + 1, 1)
         ELSE LET v == st.graph[u][j][1]
                  w == st.graph[u][j][2]
              IN  reverseEdges(
                      [st EXCEPT !.reverseGraph[v] = Append(@, <<u, w>>)],
                      i, j + 1)

\* the two maps after the loops.  reverseGraph.get(u) || [] reads a
\* missing key as the empty list, which is what the model stores for it
buildReverse(g) ==
    reverseEdges([graph |-> g, reverseGraph |-> [v \in Nodes |-> <<>>]], 1, 1)

reverseGraphOf(g) == buildReverse(g).reverseGraph

bidiInit(g, s, t) ==
    [reverseGraph |-> reverseGraphOf(g),
     distF |-> set(EmptyMap, s, 0),
     parentF |-> set(EmptyMap, s, NULL),
     pqF |-> push(<<>>, <<0, s>>),
     distB |-> set(EmptyMap, t, 0),
     parentB |-> set(EmptyMap, t, NULL),
     pqB |-> push(<<>>, <<0, t>>),
     bestPathCost |-> Infinity,
     meetingNode |-> NULL,
     nodesExplored |-> 0,
     visitedOrder |-> <<>>,
     settledF |-> {},
     settledB |-> {}]

RECURSIVE relaxF(_, _, _, _, _)
relaxF(l, neighbors, i, curT, u) ==
    IF i > Len(neighbors) THEN l
    ELSE LET v == neighbors[i][1]
             w == neighbors[i][2]
             nt == curT + w
         IN  IF nt < getOrInf(l.distF, v)
             THEN relaxF([l EXCEPT !.distF = set(l.distF, v, nt),
                                   !.parentF = set(l.parentF, v, u),
                                   !.pqF = push(l.pqF, <<nt, v>>)],
                         neighbors, i + 1, curT, u)
             ELSE relaxF(l, neighbors, i + 1, curT, u)

\* a backward relaxation that records the better cost without putting the
\* node on the backward frontier
RECURSIVE relaxBNoPush(_, _, _, _, _)
relaxBNoPush(l, neighbors, i, curT, u) ==
    IF i > Len(neighbors) THEN l
    ELSE LET v == neighbors[i][1]
             w == neighbors[i][2]
             nt == curT + w
         IN  IF nt < getOrInf(l.distB, v)
             THEN relaxBNoPush([l EXCEPT !.distB = set(l.distB, v, nt),
                                   !.parentB = set(l.parentB, v, u)],
                         neighbors, i + 1, curT, u)
             ELSE relaxBNoPush(l, neighbors, i + 1, curT, u)

RECURSIVE relaxB(_, _, _, _, _)
relaxB(l, neighbors, i, curT, u) ==
    IF i > Len(neighbors) THEN l
    ELSE LET v == neighbors[i][1]
             w == neighbors[i][2]
             nt == curT + w
         IN  IF nt < getOrInf(l.distB, v)
             THEN relaxB([l EXCEPT !.distB = set(l.distB, v, nt),
                                   !.parentB = set(l.parentB, v, u),
                                   !.pqB = push(l.pqB, <<nt, v>>)],
                         neighbors, i + 1, curT, u)
             ELSE relaxB(l, neighbors, i + 1, curT, u)

\* a trace entry that takes the predecessor from the forward mapping in
\* both directions
VisitSideForwardParent(l, u, side, parent) ==
    [l EXCEPT !.nodesExplored = l.nodesExplored + 1,
              !.visitedOrder = Append(l.visitedOrder,
                  [id |-> u, side |-> side, parent |-> get(l.parentF, u)])]

VisitSide(l, u, side, parent) ==
    [l EXCEPT !.nodesExplored = l.nodesExplored + 1,
              !.visitedOrder = Append(l.visitedOrder,
                  [id |-> u, side |-> side, parent |-> get(parent, u)])]

\* a meeting update that keeps the first meeting found
meetFirstOnly(l, u) ==
    LET pathCost == l.distF[u] + l.distB[u] IN
    IF l.meetingNode = NULL
    THEN [l EXCEPT !.bestPathCost = pathCost, !.meetingNode = u]
    ELSE l

\* "did the other search already reach this node?"
meet(l, u) ==
    LET pathCost == l.distF[u] + l.distB[u] IN
    IF pathCost < l.bestPathCost
    THEN [l EXCEPT !.bestPathCost = pathCost, !.meetingNode = u]
    ELSE l

\* the block "expand one node forward"; in the "js" copy a stale entry is
\* counted and traced too
expandForward(i, g, l) ==
    IF size(l.pqF) = 0 THEN l
    ELSE LET p == pop(l.pqF)
             curT == p.min[1]
             u == p.min[2]
             l1 == [l EXCEPT !.pqF = p.heap]
             stale == curT > getOrInf(l1.distF, u)
             l2 == IF i = "js" \/ ~stale
                   THEN VisitSide(l1, u, "start", l1.parentF) ELSE l1
         IN  IF stale THEN l2
             ELSE LET l3 == [l2 EXCEPT !.settledF = @ \cup {u}]
                      l4 == IF has(l3.distB, u) THEN meet(l3, u) ELSE l3
                  IN  relaxF(l4, g[u], 1, curT, u)

\* the block "expand one node backward"
expandBackward(i, l) ==
    IF size(l.pqB) = 0 THEN l
    ELSE LET p == pop(l.pqB)
             curT == p.min[1]
             u == p.min[2]
             l1 == [l EXCEPT !.pqB = p.heap]
             stale == curT > getOrInf(l1.distB, u)
             l2 == IF i = "js" \/ ~stale
                   THEN VisitSide(l1, u, "end", l1.parentB) ELSE l1
         IN  IF stale THEN l2
             ELSE LET l3 == [l2 EXCEPT !.settledB = @ \cup {u}]
                      l4 == IF has(l3.distF, u) THEN meet(l3, u) ELSE l3
                  IN  relaxB(l4, l4.reverseGraph[u], 1, curT, u)

\* a test that ends the loop as soon as any meeting is known
stopAtFirstMeeting(l) == l.bestPathCost < Infinity

\* a test that takes the least cost of an empty frontier to be 0
stopNowEmptyAsZero(l) ==
    LET minF == IF size(l.pqF) > 0 THEN l.pqF[1][1] ELSE 0
        minB == IF size(l.pqB) > 0 THEN l.pqB[1][1] ELSE 0
    IN  Add(minF, minB) >= l.bestPathCost

\* the test that ends the loop body: minF + minB >= bestPathCost
stopNow(l) ==
    LET minF == IF size(l.pqF) > 0 THEN l.pqF[1][1] ELSE Infinity
        minB == IF size(l.pqB) > 0 THEN l.pqB[1][1] ELSE Infinity
    IN  Add(minF, minB) >= l.bestPathCost

\* the while condition
bidiContinue(l) == size(l.pqF) > 0 \/ size(l.pqB) > 0

\* a result that joins the two halves without dropping the meeting node
\* from the second
bidiResultNoSlice(l) ==
    IF l.meetingNode = NULL
    THEN [path |-> NULL, travelTime |-> NULL,
          nodesExplored |-> l.nodesExplored, visitedOrder |-> l.visitedOrder]
    ELSE LET pathToMeeting == reconstructPath(l.parentF, l.meetingNode)
             pathFromMeeting == Reverse(reconstructPath(l.parentB, l.meetingNode))
             fullPath == pathToMeeting \o pathFromMeeting
         IN  [path |-> fullPath, travelTime |-> l.bestPathCost,
              nodesExplored |-> l.nodesExplored,
              visitedOrder |-> l.visitedOrder]

bidiResult(l) ==
    IF l.meetingNode = NULL
    THEN [path |-> NULL, travelTime |-> NULL,
          nodesExplored |-> l.nodesExplored, visitedOrder |-> l.visitedOrder]
    ELSE LET pathToMeeting == reconstructPath(l.parentF, l.meetingNode)
             pathFromMeeting == Reverse(reconstructPath(l.parentB, l.meetingNode))
             fullPath == pathToMeeting \o Tail(pathFromMeeting)
         IN  [path |-> fullPath, travelTime |-> l.bestPathCost,
              nodesExplored |-> l.nodesExplored,
              visitedOrder |-> l.visitedOrder]

bidiBegin ==
    /\ pc = "call" /\ algo = "bidirectional"
    /\ loc' = bidiInit(graph, start, target)
    /\ graph' = buildReverse(graph).graph
    /\ pc' = "fwd"
    /\ UNCHANGED <<callerVars, heapVars, impl, algo, start, target,
                   nodeCoords, result>>

bidiForward ==
    /\ pc = "fwd" /\ algo = "bidirectional"
    /\ loc' = expandForward(impl, graph, loc)
    /\ pc' = "bwd"
    /\ UNCHANGED <<callerVars, heapVars, impl, algo, graph, start, target,
                 nodeCoords, result>>

bidiBackward ==
    /\ pc = "bwd" /\ algo = "bidirectional"
    /\ loc' = expandBackward(impl, loc)
    /\ pc' = "check"
    /\ UNCHANGED <<callerVars, heapVars, impl, algo, graph, start, target,
                 nodeCoords, result>>

\* the termination test, then the while condition
bidiCheck ==
    /\ pc = "check" /\ algo = "bidirectional"
    /\ pc' = IF stopNow(loc) \/ ~bidiContinue(loc) THEN "ret" ELSE "fwd"
    /\ UNCHANGED <<callerVars, heapVars, impl, algo, graph, start, target,
                 nodeCoords, loc, result>>

bidiReturn ==
    /\ pc = "ret" /\ algo = "bidirectional"
    /\ result' = bidiResult(loc)
    /\ pc' = "done"
    /\ UNCHANGED <<callerVars, heapVars, impl, algo, graph, start, target,
                 nodeCoords, loc>>

(***************************************************************************)
(* runAlgorithm and buildGoogleMapsUrl.  The call of algo.func is the run  *)
(* of the search above; what follows builds the report from its result.    *)
(***************************************************************************)
\* === of JavaScript, on values of any type
StrictEq(a, b) == ToString(a) = ToString(b)

\* the outcome of calling a method of undefined
TypeError == <<"TypeError">>

\* at most this many waypoints go into the URL
MaxWaypoints == 10

\* the URL is the sequence of its parts: origin, destination, waypoints
buildGoogleMapsUrl(path, coords) ==
    IF path = NULL \/ Len(path) < 2 THEN NULL
    ELSE IF StrictEq(coords, UNDEFINED) THEN TypeError
    ELSE LET known == SelectSeq(path, LAMBDA nid : has(coords, nid))
             cs == [i \in 1..Len(known) |-> coords[known[i]]]
             last == IF Len(cs) - 1 > MaxWaypoints + 1
                     THEN MaxWaypoints + 1 ELSE Len(cs) - 1
         IN  IF Len(cs) < 2 THEN NULL
             ELSE <<"url", cs[1], cs[Len(cs)], SubSeq(cs, 2, last)>>

\* gmapsUrl: path ? buildGoogleMapsUrl(path, nodeCoords) : null
gmapsUrl(res, coords) ==
    IF res.path # NULL THEN buildGoogleMapsUrl(res.path, coords) ELSE NULL

\* building the report throws
runAlgorithmThrows(res, coords) ==
    LET url == gmapsUrl(res, coords) IN url # NULL /\ url = TypeError

\* the report returned
runAlgorithm(a, res, coords) ==
    [name |-> a,
     path |-> res.path,
     travelTime |-> res.travelTime,
     nodesExplored |-> res.nodesExplored,
     visitedOrder |-> res.visitedOrder,
     pathLength |-> IF res.path # NULL THEN Len(res.path) ELSE 0,
     gmapsUrl |-> gmapsUrl(res, coords)]

runAlgorithmReturn ==
    /\ pc = "done"
    /\ ~runAlgorithmThrows(result, nodeCoords)
    /\ report' = runAlgorithm(algo, result, nodeCoords)
    /\ pc' = "reported"
    /\ UNCHANGED <<hist, heapVars, impl, algo, graph, start, target,
                   nodeCoords, loc, result>>

runAlgorithmThrow ==
    /\ pc = "done"
    /\ runAlgorithmThrows(result, nodeCoords)
    /\ pc' = "thrown"
    /\ UNCHANGED <<callerVars, heapVars, impl, algo, graph, start, target,
                   nodeCoords, loc, result>>

\* computeRoutes: the caller keeps the report and runs another algorithm
\* on the same graph, start, target and lookup.  The caller of the model
\* stops after the first run that repeats an algorithm.
callAgain ==
    /\ pc = "reported"
    /\ ~has(hist, algo)
    /\ hist' = set(hist, algo, report)
    /\ algo' \in IF StrictEq(nodeCoords, UNDEFINED)
                 THEN {"dijkstra", "bidirectional"}
                 ELSE {"dijkstra", "astar", "bidirectional"}
    /\ pc' = "call"
    /\ UNCHANGED <<report, heapVars, impl, graph, start, target, nodeCoords,
                   loc, result>>

(***************************************************************************)
(* Inputs of a call.                                                       *)
(***************************************************************************)
\* every edge mirrored with the same weight
mirror(wf) ==
    [p \in DOMAIN wf \cup {<<q[2], q[1]>> : q \in DOMAIN wf} |->
        IF p \in DOMAIN wf THEN wf[p] ELSE wf[<<p[2], p[1]>>]]

HalfPairs == {<<"A", "B">>, <<"A", "C">>, <<"A", "D">>,
              <<"B", "C">>, <<"B", "D">>, <<"C", "D">>}

\* the graph of the scenarios: {A: [(B,1),(C,4)], B: [(C,1)], C: []}
ScenarioGraph ==
    buildGraph([p \in {<<"A", "B">>, <<"A", "C">>, <<"B", "C">>} |->
                   IF p = <<"A", "C">> THEN 4 ELSE 1])

\* a symmetric graph of five nodes with two cheapest paths from A to E:
\* A-D-E and A-B-C-E, both of cost 1
TieGraph ==
    buildGraph(mirror([p \in {<<"A", "B">>, <<"A", "D">>, <<"B", "C">>,
                              <<"C", "E">>, <<"D", "E">>} |->
                          IF p \in {<<"B", "C">>, <<"D", "E">>} THEN 1 ELSE 0]))

\* a chain of five nodes A -> B -> C -> D -> E of weight 1 with a dearer
\* edge A -> C: the two searches meet in the third iteration
ChainGraph ==
    buildGraph([p \in {<<"A", "B">>, <<"B", "C">>, <<"C", "D">>,
                       <<"D", "E">>, <<"A", "C">>} |->
                   IF p = <<"A", "C">> THEN 3 ELSE 1])

\* a graph whose lists hold an edge twice: A -> B and B -> D, each listed
\* twice with the same weight, and A -> D
ParallelGraph ==
    [n \in Nodes |->
        IF n = "A" THEN <<<<"B", 1>>, <<"B", 1>>, <<"D", 1>>>>
        ELSE IF n = "B" THEN <<<<"D", 0>>, <<"D", 0>>>>
        ELSE <<>>]

\* the lookups astar is called with: A and D at the origin with B at the
\* origin, one step away or at the far end and C at the origin or at the
\* far end, the same with B missing, and lookups without A or D
Coords == 0..MaxCoord
CoordLookups ==
    {f \in UNION {[S -> Coords] : S \in SUBSET Nodes} :
        /\ "E" \notin DOMAIN f
        /\ "A" \in DOMAIN f => f["A"] = 0
        /\ "D" \in DOMAIN f => f["D"] = 0
        /\ "C" \in DOMAIN f /\ f["C"] \in {0, MaxCoord}
        /\ "B" \in DOMAIN f => f["B"] \in {0, 1, MaxCoord}
        /\ "B" \notin DOMAIN f => f["C"] = MaxCoord
        /\ ("A" \notin DOMAIN f \/ "D" \notin DOMAIN f)
               => ("B" \in DOMAIN f /\ f["B"] = 0 /\ f["C"] = 0)}

Algos == {"dijkstra", "astar", "bidirectional"}

InitGraph ==
    \/ \E E \in EdgeSets : \E wf \in WeightFns(E) :
          /\ graph = buildGraph(wf)
          /\ target = "D"
    \/ \E E \in SUBSET HalfPairs : \E wf \in WeightFns(E) :
          /\ graph = buildGraph(mirror(wf))
          /\ target \in {"A", "D"}
    \/ /\ graph = ScenarioGraph
       /\ target \in {"A", "C", "D"}
    \/ /\ graph \in {TieGraph, ChainGraph}
       /\ target = "E"
    \/ /\ graph = ParallelGraph
       /\ target = "D"

(***************************************************************************)
(* Specification.                                                          *)
(***************************************************************************)
\* dijkstra and bidirectionalDijkstra do not read the lookup: they are
\* called with every node at the origin and, on the scenario graph and the
\* graph of the ties, also without a lookup
Init ==
    /\ impl \in Impls
    /\ algo \in Algos
    /\ start = "A"
    /\ InitGraph
    /\ IF algo = "astar"
       THEN nodeCoords \in CoordLookups
       ELSE \/ nodeCoords = UNDEFINED /\ graph \in {ScenarioGraph, TieGraph}
            \/ nodeCoords = [n \in Nodes \ {"E"} |-> 0]
    /\ pc = "call"
    /\ loc = UNSET
    /\ result = UNSET
    /\ report = UNSET
    /\ hist = EmptyMap
    /\ heap = <<>>
    /\ heapBefore = <<>>
    /\ popped = UNSET

Next ==
    \/ dijkstraBegin
    \/ dijkstraLoop
    \/ dijkstraReturn
    \/ astarMissing
    \/ astarBegin
    \/ astarLoop
    \/ astarReturn
    \/ bidiBegin
    \/ bidiForward
    \/ bidiBackward
    \/ bidiCheck
    \/ bidiReturn
    \/ runAlgorithmReturn
    \/ runAlgorithmThrow

Spec == Init /\ [][Next]_vars

\* the searches run to completion on the calling thread: a step that can be
\* taken is taken
\* the graphs of the repeated calls: the scenario graph and the graphs on
\* the edges A->B, B->C, C->D, A->D
RepeatPairs == {<<"A", "B">>, <<"B", "C">>, <<"C", "D">>, <<"A", "D">>}

RepeatGraphs ==
    {ScenarioGraph} \cup
    UNION {{buildGraph(wf) : wf \in WeightFns(E)} : E \in SUBSET RepeatPairs}

InitRepeat == Init /\ graph \in RepeatGraphs

NextRepeat == Next \/ callAgain

SpecRepeat == InitRepeat /\ [][NextRepeat]_vars

(***************************************************************************)
(* A MinHeap used on its own: any sequence of push and pop.                *)
(***************************************************************************)
\* priorities are 0..MaxPrio
MaxPrio == 2
\* the heap holds at most MaxHeapLen entries
MaxHeapLen == 6

\* the entries pushed: [priority, data]
HeapEntries == (0..MaxPrio) \X {"a", "b"}

\* new MinHeap()
InitHeap ==
    /\ impl = "js" /\ algo = "dijkstra"
    /\ graph = ScenarioGraph /\ start = "A" /\ target = "C"
    /\ nodeCoords = UNDEFINED
    /\ pc = "heap"
    /\ loc = UNSET /\ result = UNSET /\ report = UNSET
    /\ hist = EmptyMap
    /\ heap = <<>>
    /\ heapBefore = <<>>
    /\ popped = UNSET

\* heap.push(item)
heapPush ==
    /\ pc = "heap" /\ size(heap) < MaxHeapLen
    /\ \E item \in HeapEntries : heap' = push(heap, item)
    /\ heapBefore' = heap
    /\ popped' = UNDEFINED
    /\ UNCHANGED <<callerVars, impl, algo, graph, start, target, nodeCoords,
                   pc, loc, result>>

\* heap.pop()
heapPop ==
    /\ pc = "heap"
    /\ heap' = pop(heap).heap
    /\ heapBefore' = heap
    /\ popped' = pop(heap).min
    /\ UNCHANGED <<callerVars, impl, algo, graph, start, target, nodeCoords,
                   pc, loc, result>>

NextHeap == heapPush \/ heapPop

SpecHeap == InitHeap /\ [][NextHeap]_vars

(***************************************************************************)
(* reconstructPath called on its own: loc holds the predecessor mapping,   *)
(* target the terminal node, result what the call gives.                   *)
(***************************************************************************)
\* the nodes of the mappings
PathNodes == {"A", "B", "C"}

\* the predecessor mappings: any nodes as keys, a node or null as value
ParentMaps ==
    UNION {[S -> PathNodes \cup {NULL}] : S \in SUBSET PathNodes}

InitPath ==
    /\ impl = "js" /\ algo = "dijkstra"
    /\ graph = ScenarioGraph /\ start = "A"
    /\ target \in PathNodes
    /\ nodeCoords = UNDEFINED
    /\ pc = "path"
    /\ \E m \in ParentMaps : loc = [parent |-> m]
    /\ result = UNSET /\ report = UNSET
    /\ hist = EmptyMap
    /\ heap = <<>>
    /\ heapBefore = <<>>
    /\ popped = UNSET

\* reconstructPath(parent, target)
reconstructPathCall ==
    /\ pc = "path"
    /\ result' = reconstructPath(loc.parent, target)
    /\ pc' = "walked"
    /\ UNCHANGED <<callerVars, heapVars, impl, algo, graph, start, target,
                   nodeCoords, loc>>

NextPath == reconstructPathCall

SpecPath == InitPath /\ [][NextPath]_vars

(***************************************************************************)
(* From one way of the road data to a graph: processWay, then buildGraph.  *)
(* nodeCoords is the lookup, loc holds the way element and the edges made  *)
(* of it, graph the adjacency lists.  A time in minutes is the exact       *)
(* quotient num / den.                                                     *)
(***************************************************************************)
\* km/h of each road class
ROAD_SPEED ==
    [motorway |-> 85, trunk |-> 70, primary |-> 45, secondary |-> 35,
     tertiary |-> 30, residential |-> 20, service |-> 15,
     unclassified |-> 25, living_street |-> 10]

\* the nodes a way may name
WayNodes == {"A", "B", "C"}

\* el.nodes: two or three different nodes
WayNodeLists ==
    {ns \in UNION {[1..n -> WayNodes] : n \in 2..3} :
        \A i, j \in DOMAIN ns : i # j => ns[i] # ns[j]}

\* el.tags.highway: a road class, a class without speed, or no tag
Highways == DOMAIN ROAD_SPEED \cup {"footway", UNDEFINED}

\* way elements
Ways == [highway : Highways, oneway : {"yes", "no", "-1"}, nodes : WayNodeLists]

\* the coordinate lookups of the road data
WayCoords == UNION {[S -> 0..MaxCoord] : S \in SUBSET WayNodes}

RECURSIVE waySegments(_, _, _, _, _)
\* the for loop of processWay from index i on (i counts from 1)
waySegments(nodes, i, coords, speed, oneway) ==
    IF i > Len(nodes) - 1 THEN <<>>
    ELSE LET u == nodes[i]
             v == nodes[i + 1]
             rest == waySegments(nodes, i + 1, coords, speed, oneway)
         IN  IF ~has(coords, u) \/ ~has(coords, v) THEN rest
             ELSE LET distKm == haversine(coords[u], coords[v])
                      \* distKm / (speed / 60.0)
                      timeMin == [num |-> distKm * 60, den |-> speed]
                  IN  IF oneway = "yes" THEN <<(<<u, v, timeMin>>)>> \o rest
                      ELSE IF oneway = "-1" THEN <<(<<v, u, timeMin>>)>> \o rest
                      ELSE <<(<<u, v, timeMin>>), (<<v, u, timeMin>>)>> \o rest

processWay(el, coords) ==
    IF el.highway = UNDEFINED \/ el.highway \notin DOMAIN ROAD_SPEED THEN <<>>
    ELSE LET speed == IF ROAD_SPEED[el.highway] = 0 THEN 40
                      ELSE ROAD_SPEED[el.highway]
         IN  waySegments(el.nodes, 1, coords, speed, el.oneway)

RECURSIVE edgesFrom(_, _)
\* the entries [v, t] of the edges [u, v, t] that leave u, in order
edgesFrom(edges, u) ==
    IF edges = <<>> THEN <<>>
    ELSE IF Head(edges)[1] = u
         THEN <<(<<Head(edges)[2], Head(edges)[3]>>)>> \o edgesFrom(Tail(edges), u)
         ELSE edgesFrom(Tail(edges), u)

\* buildGraph applied to a list of edges [u, v, t] (a node without
\* outgoing edge is stored with the empty list, as above)
buildGraphOfEdges(edges) == [u \in Nodes |-> edgesFrom(edges, u)]

InitWay ==
    /\ impl = "web" /\ algo = "astar"
    /\ graph = [u \in Nodes |-> <<>>] /\ start = "A" /\ target = "A"
    /\ nodeCoords \in WayCoords
    /\ pc = "way"
    /\ \E el \in Ways : loc = [el |-> el, edges |-> <<>>]
    /\ result = UNSET /\ report = UNSET
    /\ hist = EmptyMap
    /\ heap = <<>>
    /\ heapBefore = <<>>
    /\ popped = UNSET

\* edges = processWay(el, nodeCoords)
processWayCall ==
    /\ pc = "way"
    /\ loc' = [loc EXCEPT !.edges = processWay(loc.el, nodeCoords)]
    /\ pc' = "edges"
    /\ UNCHANGED <<callerVars, heapVars, impl, algo, graph, start, target,
                   nodeCoords, result>>

\* graph = buildGraph(edges)
buildGraphCall ==
    /\ pc = "edges"
    /\ graph' = buildGraphOfEdges(loc.edges)
    /\ pc' = "built"
    /\ UNCHANGED <<callerVars, heapVars, impl, algo, start, target,
                   nodeCoords, loc, result>>

NextWay == processWayCall \/ buildGraphCall

SpecWay == InitWay /\ [][NextWay]_vars

(***************************************************************************)
(* Reference notions the properties are stated with.                       *)
(***************************************************************************)
\* the nodes of a graph: its keys, the neighbours, and the start
GraphNodes(g, s) ==
    {s} \cup {u \in Nodes : g[u] # <<>>}
        \cup UNION {{g[u][j][1] : j \in 1..Len(g[u])} : u \in Nodes}

HasEdge(g, u, v) == \E j \in 1..Len(g[u]) : g[u][j][1] = v

\* the weight of the edge u -> v (parallel edges of the graphs of the
\* model have the same weight)
EdgeWeight(g, u, v) ==
    g[u][CHOOSE j \in 1..Len(g[u]) : g[u][j][1] = v][2]

SetMin(S) == CHOOSE x \in S : \A y \in S : x <= y

RECURSIVE PathWeight(_, _)
PathWeight(g, path) ==
    IF Len(path) < 2 THEN 0
    ELSE EdgeWeight(g, path[1], path[2]) + PathWeight(g, Tail(path))

\* path is a walk of the graph
IsWalk(g, path) ==
    /\ path # DIVERGES
    /\ Len(path) >= 1
    /\ \A i \in 1..(Len(path) - 1) : HasEdge(g, path[i], path[i + 1])

RECURSIVE CostWithin(_, _, _, _)
\* the minimum total weight over the paths from s to t of at most k edges,
\* Infinity when there is none
CostWithin(g, s, t, k) ==
    IF s = t THEN 0
    ELSE IF k = 0 THEN Infinity
    ELSE LET via == {Add(g[s][j][2], CostWithin(g, g[s][j][1], t, k - 1)) :
                        j \in 1..Len(g[s])}
         IN  IF via = {} THEN Infinity ELSE SetMin(via)

\* the minimum total weight over all paths from s to t, Infinity when
\* there is none; with weights >= 0 a cheapest path repeats no node
MinCost(g, s, t) == CostWithin(g, s, t, Cardinality(Nodes) - 1)

Reachable(g, s, t) == MinCost(g, s, t) < Infinity

Done(a) == pc = "done" /\ algo = a

\* the heuristic of every node is at most its true cost to the target
Admissible(g, coords, t) ==
    \A n \in Nodes : heuristic(coords, t, n) <= MinCost(g, n, t)

(***************************************************************************)
(* Properties.                                                             *)
(***************************************************************************)

\* C1: whenever the target is reachable from the start, dijkstra returns
\* the minimum total weight over all start-to-target paths as travelTime;
\* on the scenario graph the search A to C returns [A,B,C] with cost 2.
C1_DijkstraOptimal ==
    (Done("dijkstra") /\ Reachable(graph, start, target)) =>
        /\ result.travelTime = MinCost(graph, start, target)
        /\ (graph = ScenarioGraph /\ target = "C") =>
               (result.path = <<"A", "B", "C">> /\ result.travelTime = 2)

\* a run where the first cost found for the target is not the minimum
C1_Witness ==
    /\ Done("dijkstra")
    /\ graph = ScenarioGraph /\ target = "C"
    /\ result.travelTime = 2

\* C2 as claimed: for every lookup that holds start and target, when
\* dijkstra and astar both return a path their travelTime is the same.
C2_AstarEqualsDijkstra ==
    (Done("astar") /\ result.path # NULL) =>
        LET d == dijkstra(impl, graph, start, target) IN
        d.path # NULL => result.travelTime = d.travelTime

\* C3: whenever bidirectionalDijkstra and dijkstra both return a path,
\* their travelTime is the same.
C3_BidiEqualsDijkstra ==
    (Done("bidirectional") /\ result.path # NULL) =>
        LET d == dijkstra(impl, graph, start, target) IN
        d.path # NULL => result.travelTime = d.travelTime

\* the two searches met at a node between start and target after a dearer
\* meeting had been recorded
C3_Witness ==
    /\ Done("bidirectional") /\ result.path # NULL
    /\ Len(result.path) > 2
    /\ HasEdge(graph, start, target)
    /\ result.travelTime < EdgeWeight(graph, start, target)

\* C4: a path returned by dijkstra or bidirectionalDijkstra is a walk of
\* the graph whose edge weights sum to the travelTime returned.
C4_PathMatchesCost ==
    ((Done("dijkstra") \/ Done("bidirectional")) /\ result.path # NULL) =>
        /\ IsWalk(graph, result.path)
        /\ PathWeight(graph, result.path) = result.travelTime

\* a path of three edges returned by the bidirectional search
C4_Witness ==
    /\ Done("bidirectional") /\ result.path # NULL
    /\ Len(result.path) = 4
    /\ result.travelTime > 0

\* C5: a path returned by astar, whatever the lookup, is a walk of the
\* graph whose edge weights sum to the travelTime returned.
C5_AstarPathMatchesCost ==
    (Done("astar") /\ result.path # NULL) =>
        /\ IsWalk(graph, result.path)
        /\ PathWeight(graph, result.path) = result.travelTime

\* astar returned a path under a heuristic that is not admissible, having
\* improved the cost of a node it had already expanded
C5_Witness ==
    /\ Done("astar") /\ result.path # NULL
    /\ ~Admissible(graph, nodeCoords, target)
    /\ \E i, j \in 1..Len(result.visitedOrder) :
          /\ i < j
          /\ result.visitedOrder[i].id = result.visitedOrder[j].id
          /\ result.visitedOrder[i].parent # result.visitedOrder[j].parent

\* C6: when the target is not reachable from the start, each search
\* returns path = null and travelTime = null.
C6_UnreachableNull ==
    (pc = "done" /\ ~Reachable(graph, start, target)) =>
        (result.path = NULL /\ result.travelTime = NULL)

\* a search gave up after exploring more than the start
C6_Witness ==
    /\ pc = "done" /\ ~Reachable(graph, start, target)
    /\ result.path = NULL
    /\ result.nodesExplored > 1

\* C7: when start equals target, each search returns path [start],
\* travelTime 0 and nodesExplored >= 1.
C7_StartIsTarget ==
    (pc = "done" /\ start = target
        /\ (algo = "astar" => has(nodeCoords, start))) =>
        /\ result.path = <<start>>
        /\ result.travelTime = 0
        /\ result.nodesExplored >= 1

\* the single-node graph {A: []}
C7_Witness ==
    /\ pc = "done" /\ start = target
    /\ \A n \in Nodes : graph[n] = <<>>
    /\ result.nodesExplored = 1
    /\ result.path = <<start>>

\* C8: when the lookup lacks start or target, astar returns at once: no
\* frontier is ever built, and the result is null, null, 0 and [].
C8_AstarMissingCoords ==
    (algo = "astar" /\ (~has(nodeCoords, start) \/ ~has(nodeCoords, target))) =>
        /\ pc \in {"call", "done", "reported"}
        /\ loc = UNSET
        /\ pc = "done" =>
              /\ result.path = NULL /\ result.travelTime = NULL
              /\ result.nodesExplored = 0 /\ result.visitedOrder = <<>>

\* astar returned on a lookup that has the target but not the start
C8_Witness ==
    /\ Done("astar")
    /\ ~has(nodeCoords, start) /\ has(nodeCoords, target)
    /\ Reachable(graph, start, target)

\* the entry at the root of the frontier is stale
StaleTop(pq, dist, c, n) ==
    size(pq) > 0 /\ pq[1][c] > getOrInf(dist, pq[1][n])

\* C9 as claimed: an extracted entry whose stored cost exceeds the node's
\* best-known cost changes nothing but the frontier.
C9_StaleDiscarded ==
    [][/\ (dijkstraLoop /\ StaleTop(loc.pq, loc.dist, 1, 2)) =>
            loc' = [loc EXCEPT !.pq = loc'.pq]
       /\ (astarLoop /\ StaleTop(loc.pq, loc.gScore, 2, 3)) =>
            loc' = [loc EXCEPT !.pq = loc'.pq]
       /\ (bidiForward /\ StaleTop(loc.pqF, loc.distF, 1, 2)) =>
            loc' = [loc EXCEPT !.pqF = loc'.pqF]
       /\ (bidiBackward /\ StaleTop(loc.pqB, loc.distB, 1, 2)) =>
            loc' = [loc EXCEPT !.pqB = loc'.pqB]]_vars

\* C10 as claimed: dijkstra's nodesExplored never exceeds the number of
\* distinct nodes of the graph.
C10_DijkstraExploredBounded ==
    (algo = "dijkstra" /\ pc # "call") =>
        loc.nodesExplored <= Cardinality(GraphNodes(graph, start))

\* C11 as claimed: bidirectionalDijkstra's nodesExplored never exceeds the
\* number of distinct nodes of the graph (the target counted among them).
C11_BidiExploredBounded ==
    (algo = "bidirectional" /\ pc \in {"fwd", "bwd", "check", "ret"}) =>
        loc.nodesExplored <= Cardinality(GraphNodes(graph, start) \cup {target})

\* the nodes reachable from s
ReachSet(g, s) == {n \in Nodes : Reachable(g, s, n)}

\* C12 as claimed: when the target is unreachable, dijkstra explores every
\* node reachable from start exactly once, so nodesExplored is their number.
C12_UnreachableExploresAll ==
    (Done("dijkstra") /\ ~Reachable(graph, start, target)) =>
        /\ result.nodesExplored = Cardinality(ReachSet(graph, start))
        /\ Len(result.visitedOrder) = Cardinality(ReachSet(graph, start))
        /\ {result.visitedOrder[i].id : i \in 1..Len(result.visitedOrder)}
               = ReachSet(graph, start)

C14_InputsUnchanged ==
    [][graph' = graph /\ nodeCoords' = nodeCoords]_vars

\* bidirectionalDijkstra built a reverse graph of three edges or more and
\* runAlgorithm reported its path
C14_Witness ==
    /\ pc = "reported" /\ algo = "bidirectional"
    /\ report.path # NULL
    /\ \E v \in Nodes : Len(loc.reverseGraph[v]) >= 2
    /\ \E v \in Nodes : Len(graph[v]) >= 2

\* every edge u -> v of weight w is mirrored by v -> u of weight w
Symmetric(g) ==
    \A u \in Nodes : \A j \in 1..Len(g[u]) :
        /\ HasEdge(g, g[u][j][1], u)
        /\ EdgeWeight(g, g[u][j][1], u) = g[u][j][2]

\* the graphs of the runs to the end, next to the scenario graph: the
\* two-way roads among A-B, A-C, B-C and C-D, where every road is a cycle
\* and the first three a triangle; astar runs on them with B at the origin
\* or missing
FairPairs == {<<"A", "B">>, <<"A", "C">>, <<"B", "C">>, <<"C", "D">>}

FairGraphs ==
    UNION {{buildGraph(mirror(wf)) : wf \in WeightFns(E)} :
              E \in SUBSET FairPairs}

InitFair ==
    /\ Init
    /\ graph \in FairGraphs \cup {ScenarioGraph}
    /\ (algo = "astar" /\ has(nodeCoords, "B")) => nodeCoords["B"] = 0

\* a call runs on: a step that can be taken is taken
SpecFair == InitFair /\ [][Next]_vars /\ WF_vars(Next)

\* C15 as claimed: on a symmetric graph, whenever there is a path,
\* bidirectionalDijkstra returns the node sequence dijkstra returns.
C15_SymmetricSamePath ==
    (Done("bidirectional") /\ Symmetric(graph) /\ result.path # NULL) =>
        LET d == dijkstra(impl, graph, start, target) IN
        d.path # NULL /\ result.path = d.path

RECURSIVE PathsFrom(_, _, _)
\* the walks that go on from the walk p to t and repeat no node
PathsFrom(g, p, t) ==
    LET u == p[Len(p)] IN
    IF u = t THEN {p}
    ELSE UNION {PathsFrom(g, Append(p, g[u][j][1]), t) :
                   j \in {i \in 1..Len(g[u]) :
                             \A k \in DOMAIN p : p[k] # g[u][i][1]}}

\* the paths from s to t of minimum total weight that repeat no node
CheapestPaths(g, s, t) ==
    LET m == MinCost(g, s, t) IN
    {p \in PathsFrom(g, <<s>>, t) : PathWeight(g, p) = m}

\* C15 amended: on a symmetric graph, whenever there is a path,
\* bidirectionalDijkstra returns a path of the cost dijkstra returns, and
\* the node sequence dijkstra returns when only one path has that cost.
C15_SymmetricSameCost ==
    (Done("bidirectional") /\ Symmetric(graph) /\ result.path # NULL) =>
        LET d == dijkstra(impl, graph, start, target) IN
        /\ d.path # NULL
        /\ result.travelTime = d.travelTime
        /\ PathWeight(graph, result.path) = d.travelTime
        /\ Cardinality(CheapestPaths(graph, start, target)) = 1 =>
               result.path = d.path

\* a symmetric graph with a single cheapest path, of three nodes or more,
\* and a dearer direct edge
C15_Witness ==
    /\ Done("bidirectional") /\ Symmetric(graph) /\ result.path # NULL
    /\ Cardinality(CheapestPaths(graph, start, target)) = 1
    /\ Len(result.path) > 2
    /\ HasEdge(graph, start, target)

\* C16: on every graph with weights >= 0, zero-weight edges and cycles
\* included, each of the three searches terminates: the call returns.
C16_Terminates == <>(pc = "done")

\* a search returned after exhausting its frontier on a graph with a cycle
\* of zero-weight edges
C16_Witness ==
    /\ pc = "done" /\ result.path = NULL
    /\ HasEdge(graph, "B", "C") /\ EdgeWeight(graph, "B", "C") = 0
    /\ HasEdge(graph, "C", "B") /\ EdgeWeight(graph, "C", "B") = 0
    /\ result.nodesExplored >= 3

\* C17: when the search returns no path, the report of runAlgorithm has
\* pathLength null, not 0, and gmapsUrl null.
C17_NoPathFieldsNull ==
    (pc = "reported" /\ report.path = NULL) =>
        /\ StrictEq(report.pathLength, NULL)
        /\ StrictEq(report.gmapsUrl, NULL)

\* C18: runAlgorithm returns a report and never throws, also when the
\* coordinate lookup is omitted for dijkstra or bidirectionalDijkstra and
\* the path found has two or more nodes.
C18_NeverThrows == pc # "thrown"

\* the number of times entry e is stored in the array h
Count(h, e) == Cardinality({i \in DOMAIN h : h[i] = e})

\* the last call was a pop
PopReturned ==
    pc = "heap" /\ ~StrictEq(popped, UNSET) /\ ~StrictEq(popped, UNDEFINED)

\* C19: after any sequence of push and pop, pop on a non-empty heap returns
\* an entry of the smallest priority stored and removes exactly that one
\* entry, every other entry staying stored; pop on an empty heap returns
\* null and leaves the heap empty.
C19_PopReturnsMinimum ==
    PopReturned =>
        IF heapBefore = <<>>
        THEN StrictEq(popped, NULL) /\ heap = <<>>
        ELSE /\ \E i \in DOMAIN heapBefore : heapBefore[i] = popped
             /\ \A i \in DOMAIN heapBefore : popped[1] <= heapBefore[i][1]
             /\ Len(heap) = Len(heapBefore) - 1
             /\ \A e \in HeapEntries :
                    Count(heap, e) + (IF e = popped THEN 1 ELSE 0)
                        = Count(heapBefore, e)

\* a pop of a full heap, after earlier pops, that sinks the last entry two
\* levels down past an equal priority
C19_Witness ==
    /\ PopReturned
    /\ Len(heapBefore) = MaxHeapLen
    /\ heap[1] # heapBefore[2] /\ heap[1] # heapBefore[3]
    /\ heap[Len(heap)] = heapBefore[Len(heapBefore)]
    /\ \E i, j \in DOMAIN heap : i # j /\ heap[i][1] = heap[j][1]

\* a pop of the empty heap
C19_WitnessEmpty ==
    PopReturned /\ heapBefore = <<>> /\ heap = <<>>

\* the heuristic is consistent: it drops along an edge by at most its weight
Consistent(g, coords, t) ==
    \A u \in Nodes : \A j \in 1..Len(g[u]) :
        heuristic(coords, t, u) <= g[u][j][2] + heuristic(coords, t, g[u][j][1])

\* C20: when the heuristic of every node is at most the minimum cost from
\* that node to the target (admissible, consistent or not), the travelTime
\* astar returns on finding the target is the minimum start-to-target cost.
C20_AdmissibleOptimal ==
    (Done("astar") /\ result.path # NULL
         /\ Admissible(graph, nodeCoords, target)) =>
        result.travelTime = MinCost(graph, start, target)

\* astar found a cheapest path of three or more nodes, cheaper than the
\* edge from start to target, under an admissible heuristic that is not
\* consistent
C20_Witness ==
    /\ Done("astar") /\ result.nodesExplored > 1 /\ result.path # NULL
    /\ Admissible(graph, nodeCoords, target)
    /\ ~Consistent(graph, nodeCoords, target)
    /\ Len(result.path) > 2
    /\ HasEdge(graph, start, target)
    /\ result.travelTime < EdgeWeight(graph, start, target)

\* C21: after every push and every pop, equal priorities included, the
\* priority at index floor((i-1)/2) is at most the priority at index i for
\* every index i > 0, so heap[0] holds a minimum priority.
C21_HeapProperty ==
    pc = "heap" =>
        /\ \A i \in 1..(Len(heap) - 1) :
               heap[((i - 1) \div 2) + 1][1] <= heap[i + 1][1]
        /\ \A i \in DOMAIN heap : heap[1][1] <= heap[i][1]

\* a heap of three levels left by a pop of a full heap, holding equal
\* priorities, whose root is neither child of the root popped
C21_Witness ==
    /\ PopReturned /\ Len(heapBefore) = MaxHeapLen
    /\ \E i, j \in DOMAIN heap : i # j /\ heap[i][1] = heap[j][1]
    /\ heap[1][1] < heap[2][1] /\ heap[2][1] < heap[4][1]
    /\ heap[1] # heapBefore[2] /\ heap[1] # heapBefore[3]

\* the nodes a trace of extractions names
Extracted(visitedOrder) ==
    {visitedOrder[i].id : i \in DOMAIN visitedOrder}

\* C22: in dijkstra and in each direction of bidirectionalDijkstra, once a
\* node was extracted with a priority equal to its best-known cost, no
\* later step changes its best-known cost or its predecessor.
C22_FinalizedFixed ==
    [][/\ (algo = "dijkstra" /\ pc = "loop") =>
              \A u \in Extracted(loc.visitedOrder) :
                  /\ loc'.dist[u] = loc.dist[u]
                  /\ loc'.parent[u] = loc.parent[u]
       /\ (algo = "bidirectional" /\ pc \in {"fwd", "bwd"}) =>
              /\ \A u \in loc.settledF :
                     /\ loc'.distF[u] = loc.distF[u]
                     /\ loc'.parentF[u] = loc.parentF[u]
              /\ \A u \in loc.settledB :
                     /\ loc'.distB[u] = loc.distB[u]
                     /\ loc'.parentB[u] = loc.parentB[u]]_vars

\* dijkstra is about to expand a node that has a zero-weight edge back to
\* a node extracted before it at the same cost
C22_Witness ==
    /\ algo = "dijkstra" /\ pc = "loop" /\ ~loc.brk /\ size(loc.pq) > 0
    /\ LET u == loc.pq[1][2] IN
       /\ loc.pq[1][1] = loc.dist[u]
       /\ u \notin Extracted(loc.visitedOrder)
       /\ \E v \in Extracted(loc.visitedOrder) :
              /\ HasEdge(graph, u, v) /\ EdgeWeight(graph, u, v) = 0
              /\ loc.dist[v] = loc.dist[u]
              /\ loc.parent[v] # u

\* C23: a node expanded by one direction becomes the meeting node only if
\* the opposite direction has already finalized it; a node with a merely
\* tentative cost in the opposite direction never becomes the meeting node.
C23_MeetOnlySettled ==
    [][(algo = "bidirectional" /\ pc \in {"fwd", "bwd"}
            /\ loc'.bestPathCost < loc.bestPathCost) =>
           IF pc = "fwd" THEN loc'.meetingNode \in loc.settledB
                         ELSE loc'.meetingNode \in loc.settledF]_vars

\* the number of nodes whose best-known cost differs between d and e
Improved(d, e) ==
    Cardinality({v \in Nodes : getOrInf(d, v) # getOrInf(e, v)})

\* C24: every iteration of the loop of bidirectionalDijkstra extracts
\* exactly one entry from the forward frontier and then exactly one from
\* the backward frontier: at the forward block both frontiers hold an
\* entry, the block takes one from the forward frontier and leaves the
\* backward one alone, and the backward block does the same mirrored.
C24_Alternates ==
    [][algo = "bidirectional" =>
          /\ pc = "fwd" =>
                 /\ size(loc.pqF) > 0 /\ size(loc.pqB) > 0
                 /\ pc' = "bwd"
                 /\ loc'.pqB = loc.pqB
                 /\ size(loc'.pqF) =
                        size(loc.pqF) - 1 + Improved(loc.distF, loc'.distF)
          /\ pc = "bwd" =>
                 /\ size(loc.pqB) > 0
                 /\ pc' = "check"
                 /\ loc'.pqF = loc.pqF
                 /\ size(loc'.pqB) =
                        size(loc.pqB) - 1 + Improved(loc.distB, loc'.distB)
          /\ pc = "check" => pc' \in {"fwd", "ret"}]_vars

\* the third iteration begins with two entries in the forward frontier and
\* one in the backward frontier
C24_Witness ==
    /\ algo = "bidirectional" /\ pc = "fwd"
    /\ Cardinality(loc.settledF) = 2 /\ Cardinality(loc.settledB) = 2
    /\ size(loc.pqF) = 2 /\ size(loc.pqB) = 1

\* the weights that occur in the lists of g
EntryWeights(g) ==
    UNION {{g[n][j][2] : j \in DOMAIN g[n]} : n \in Nodes}

\* C25: the reverse graph holds the entry (u, w) in the list of v exactly
\* as many times as the input graph holds (v, w) in the list of u.
C25_ReverseGraphExact ==
    (algo = "bidirectional" /\ pc \in {"fwd", "bwd", "check", "ret"}) =>
        \A u, v \in Nodes :
            \A w \in EntryWeights(graph) \cup EntryWeights(loc.reverseGraph) :
                Count(loc.reverseGraph[v], <<u, w>>) = Count(graph[u], <<v, w>>)

\* the reverse graph of a graph that lists an edge twice and has a node
\* entered by two nodes
C25_Witness ==
    /\ algo = "bidirectional" /\ pc = "fwd"
    /\ Count(loc.reverseGraph["D"], <<"B", 0>>) = 2
    /\ Count(loc.reverseGraph["D"], <<"A", 1>>) = 1
    /\ Count(loc.reverseGraph["B"], <<"A", 1>>) = 2

Numerators(g) ==
    [u \in DOMAIN g |-> [j \in DOMAIN g[u] |-> <<g[u][j][1], g[u][j][2].num>>]]

\* C27: on a graph whose weights processWay produced, the heuristic of
\* astar (straight-line km turned into minutes at 60 km/h) of a node is at
\* most the minimum cost from that node to the target, for every target
\* the lookup holds.
C27_HeuristicNeverOverestimates ==
    (pc = "built" /\ loc.edges # <<>>) =>
        \A t \in DOMAIN nodeCoords : \A n \in Nodes :
            LET cost == MinCost(Numerators(graph), n, t) IN
            cost < Infinity =>
                heuristic(nodeCoords, t, n) * ROAD_SPEED[loc.el.highway] <= cost

\* C28: a path returned by bidirectionalDijkstra starts with the start
\* node, ends with the target node, and holds no node twice (the meeting
\* node once).
C28_BidiPathSimple ==
    (Done("bidirectional") /\ result.path # NULL) =>
        /\ result.path # DIVERGES
        /\ result.path[1] = start
        /\ result.path[Len(result.path)] = target
        /\ \A i, j \in 1..Len(result.path) :
              i # j => result.path[i] # result.path[j]
        /\ Cardinality({i \in 1..Len(result.path) :
                           result.path[i] = loc.meetingNode}) = 1

\* the two halves met strictly between start and target, each half more
\* than one edge long
C28_Witness ==
    /\ Done("bidirectional") /\ result.path # NULL
    /\ Len(result.path) = 5
    /\ result.path[3] = loc.meetingNode

\* C29: bidirectionalDijkstra returns a path exactly when the target is
\* reachable from the start in the input graph, and so do dijkstra and
\* astar (astar given coordinates for start and target): the three agree
\* on whether a path exists.
C29_PathIffReachable ==
    (pc = "done"
        /\ (algo = "astar" =>
               has(nodeCoords, start) /\ has(nodeCoords, target))) =>
        /\ (result.path # NULL) <=> Reachable(graph, start, target)
        /\ algo = "bidirectional" =>
              ((result.path # NULL) <=>
                  (dijkstra(impl, graph, start, target).path # NULL))

\* the target cannot be reached: the bidirectional loop ended because the
\* backward frontier ran empty while the forward one still held two or
\* more nodes, and no path was returned
C29_Witness ==
    /\ Done("bidirectional") /\ ~Reachable(graph, start, target)
    /\ result.path = NULL
    /\ size(loc.pqB) = 0
    /\ size(loc.pqF) >= 2

\* the event a step added to the trace, as a set: empty when it added none
Added(before, after) ==
    {after[i] : i \in (Len(before) + 1)..Len(after)}

\* the nodes the events of one direction recorded (dijkstra and astar
\* have one direction, "start")
RecordedBy(visitedOrder, side) ==
    {visitedOrder[i].id : i \in {k \in DOMAIN visitedOrder :
        algo = "bidirectional" => visitedOrder[k].side = side}}

\* the event e, added when the head of the frontier pq was extracted with
\* the predecessor mapping parent, is as the trace promises
EventOk(e, side, origin, extracted, parent) ==
    /\ e.id = extracted
    /\ algo = "bidirectional" => e.side = side
    /\ e.parent = get(parent, e.id)
    /\ e.parent = NULL <=> e.id = origin
    /\ e.parent # NULL => e.parent \in RecordedBy(loc.visitedOrder, side)

\* C30: in the visitedOrder trace of every search, the parent of each
\* event is null exactly for the origin of that direction and otherwise a
\* node that an earlier event of the same direction recorded, and it is
\* the predecessor the node had when it was extracted.
C30_TraceParents ==
    [][/\ (pc = "loop" /\ pc' = "loop") =>
            /\ Len(loc'.visitedOrder) <= Len(loc.visitedOrder) + 1
            /\ \A e \in Added(loc.visitedOrder, loc'.visitedOrder) :
                  EventOk(e, "start", start,
                          loc.pq[1][Len(loc.pq[1])], loc.parent)
       /\ pc = "fwd" =>
            /\ Len(loc'.visitedOrder) <= Len(loc.visitedOrder) + 1
            /\ \A e \in Added(loc.visitedOrder, loc'.visitedOrder) :
                  EventOk(e, "start", start, loc.pqF[1][2], loc.parentF)
       /\ pc = "bwd" =>
            /\ Len(loc'.visitedOrder) <= Len(loc.visitedOrder) + 1
            /\ \A e \in Added(loc.visitedOrder, loc'.visitedOrder) :
                  EventOk(e, "end", target, loc.pqB[1][2], loc.parentB)
       /\ (pc \in {"loop", "check"} /\ pc' # "loop") =>
            loc'.visitedOrder = loc.visitedOrder]_vars

\* a node that both directions of the bidirectional search recorded, with
\* a different predecessor in each, neither of them null
C30_Witness ==
    /\ Done("bidirectional")
    /\ \E i, j \in DOMAIN result.visitedOrder :
          /\ result.visitedOrder[i].id = result.visitedOrder[j].id
          /\ result.visitedOrder[i].side = "start"
          /\ result.visitedOrder[j].side = "end"
          /\ result.visitedOrder[i].parent # NULL
          /\ result.visitedOrder[j].parent # NULL
          /\ result.visitedOrder[i].parent # result.visitedOrder[j].parent

=============================================================================
